---- MODULE Spec2Model ----
(***************************************************************************)
(* Vocabulary and Tokenizer of pyhealth/tokenizer.py.                      *)
(*                                                                         *)
(* A Vocabulary is the record [token2idx, idx2token, idx].  A call's       *)
(* outcome is the record [err, val]: err = "none" and val the returned     *)
(* value, or err the kind of the exception raised and val = <<>>.          *)
(*   "UnknownToken" : ValueError raised by Vocabulary.__call__             *)
(*   "EmptyMax"     : ValueError raised by max() of an empty list          *)
(*   "KeyError"     : KeyError raised by idx2token[idx]                    *)
(***************************************************************************)
EXTENDS Integers, Sequences, FiniteSets, TLC

VARIABLES vocabulary, special_tokens, tokens, op, args, result

vars == <<vocabulary, special_tokens, tokens, op, args, result>>

PAD == "<pad>"
UNK == "<unk>"

(***************************************************************************)
(* Bounds of the model.                                                    *)
(***************************************************************************)
\* longest special_tokens list given to Vocabulary.__init__ (SpecVocab)
MaxSpecial == 2
\* longest tokens list given to Vocabulary.__init__ (SpecVocab)
MaxTokens == 2
\* longest list given to the 1-d conversions
MaxSize1D == 3
\* size (rows + tokens) of the largest 2-d batch of tokens
MaxSize2D == 4
\* size (patients + visits + codes) of the largest 3-d batch of tokens
MaxSize3D == 5
\* largest max_length passed when truncation is enabled
MaxMaxLength == 2
\* categorize_los is called with -MaxDays .. MaxDays days (SpecLos)
MaxDays == 60

\* the tokens the callers draw from
Tokens == {PAD, UNK, "a", "z"}

(***************************************************************************)
(* Python built-ins used by the code.                                      *)
(***************************************************************************)
\* the value returned by a call
Ok(v) == [err |-> "none", val |-> v]

\* an exception leaves the call: no value is returned
Raise(e) == [err |-> e, val |-> <<>>]

\* max(list) of a non-empty list of integers
SeqMax(s) == CHOOSE m \in {s[i] : i \in DOMAIN s} : \A i \in DOMAIN s : s[i] <= m

\* list[:n], negative n counting from the end
Slice(s, n) ==
    LET stop == IF n >= 0
                THEN (IF n < Len(s) THEN n ELSE Len(s))
                ELSE (IF Len(s) + n > 0 THEN Len(s) + n ELSE 0)
    IN  SubSeq(s, 1, stop)

\* [x] * n
Repeat(x, n) == [i \in 1..n |-> x]

\* [x for x in s if x != drop]
RECURSIVE FilterOut(_, _)
FilterOut(s, drop) ==
    IF s = <<>> THEN <<>>
    ELSE IF Head(s) = drop THEN FilterOut(Tail(s), drop)
         ELSE <<Head(s)>> \o FilterOut(Tail(s), drop)

\* all sequences over S of length at most n
SeqsUpTo(S, n) == UNION {[1..k -> S] : k \in 0..n}

\* all lists of lists over S built by at most n appends (of an empty row, or
\* of an element to the last row)
RECURSIVE Batches2D(_, _)
Batches2D(S, n) ==
    IF n = 0 THEN {<<>>}
    ELSE LET P == Batches2D(S, n - 1)
         IN  P \cup {Append(b, <<>>) : b \in P}
               \cup {[b EXCEPT ![Len(b)] = Append(@, x)] :
                         b \in {y \in P : y # <<>>}, x \in S}

\* all lists of lists of lists over S built by at most n appends (of an
\* empty patient, of an empty visit to the last patient, or of an element to
\* the last visit)
RECURSIVE Batches3D(_, _)
Batches3D(S, n) ==
    IF n = 0 THEN {<<>>}
    ELSE LET P == Batches3D(S, n - 1)
             WithPatient == {y \in P : y # <<>>}
             WithVisit == {y \in WithPatient : y[Len(y)] # <<>>}
         IN  P \cup {Append(b, <<>>) : b \in P}
               \cup {[b EXCEPT ![Len(b)] = Append(@, <<>>)] : b \in WithPatient}
               \cup {[b EXCEPT ![Len(b)][Len(b[Len(b)])] = Append(@, x)] :
                         b \in WithVisit, x \in S}

(***************************************************************************)
(* class Vocabulary                                                        *)
(***************************************************************************)
\* the state at line 31: two empty dicts and idx = 0
EmptyVocabulary == [token2idx |-> <<>>, idx2token |-> <<>>, idx |-> 0]

\* add_token with the membership test lost: a known token is registered again
AddTokenNoTest(v, token) ==
    [token2idx |-> [t \in DOMAIN v.token2idx \cup {token} |->
                        IF t = token THEN v.idx ELSE v.token2idx[t]],
     idx2token |-> [i \in DOMAIN v.idx2token \cup {v.idx} |->
                        IF i = v.idx THEN token ELSE v.idx2token[i]],
     idx       |-> v.idx + 1]

\* add_token advancing the counter for a known token too
AddTokenAlwaysCount(v, token) ==
    IF token \notin DOMAIN v.token2idx
    THEN AddTokenNoTest(v, token)
    ELSE [v EXCEPT !.idx = v.idx + 1]

\* Vocabulary.add_token
AddToken(v, token) ==
    IF token \notin DOMAIN v.token2idx
    THEN [token2idx |-> [t \in DOMAIN v.token2idx \cup {token} |->
                            IF t = token THEN v.idx ELSE v.token2idx[t]],
          idx2token |-> [i \in DOMAIN v.idx2token \cup {v.idx} |->
                            IF i = v.idx THEN token ELSE v.idx2token[i]],
          idx       |-> v.idx + 1]
    ELSE v

\* for token in all_tokens: self.add_token(token)
RECURSIVE AddAll(_, _)
AddAll(v, all_tokens) ==
    IF all_tokens = <<>> THEN v
    ELSE AddAll(AddToken(v, Head(all_tokens)), Tail(all_tokens))

\* __init__ with the two lists concatenated the other way round
VocabularyInitTokensFirst(tks, specials) == AddAll(EmptyVocabulary, tks \o specials)

\* Vocabulary.__init__(tokens, special_tokens)
VocabularyInit(tks, specials) ==
    LET all_tokens == specials \o tks
    IN  AddAll(EmptyVocabulary, all_tokens)

\* __call__ without the <unk> fallback
VocabularyCallNoFallback(v, token) ==
    IF token \notin DOMAIN v.token2idx
    THEN Raise("UnknownToken")
    ELSE Ok(v.token2idx[token])

\* __call__ giving an unregistered <pad> index 0 instead of failing
VocabularyCallPadZero(v, token) ==
    IF token \notin DOMAIN v.token2idx
    THEN IF UNK \in DOMAIN v.token2idx
         THEN Ok(v.token2idx[UNK])
         ELSE IF token = PAD THEN Ok(0) ELSE Raise("UnknownToken")
    ELSE Ok(v.token2idx[token])

\* Vocabulary.__call__
VocabularyCall(v, token) ==
    IF token \notin DOMAIN v.token2idx
    THEN IF UNK \in DOMAIN v.token2idx
         THEN Ok(v.token2idx[UNK])
         ELSE Raise("UnknownToken")
    ELSE Ok(v.token2idx[token])

\* Vocabulary.__len__
VocabularyLen(v) == Cardinality(DOMAIN v.token2idx)

\* self.vocabulary.idx2token[idx]
\* idx2token read like a list: a negative index counts from the end
Idx2TokenWrap(v, i) ==
    IF i \in DOMAIN v.idx2token THEN Ok(v.idx2token[i])
    ELSE IF i < 0 /\ (i + v.idx) \in DOMAIN v.idx2token THEN Ok(v.idx2token[i + v.idx])
    ELSE Raise("KeyError")

Idx2Token(v, i) ==
    IF i \in DOMAIN v.idx2token THEN Ok(v.idx2token[i]) ELSE Raise("KeyError")

(***************************************************************************)
(* The Vocabulary on its own: construction, then add_token, __call__ and   *)
(* __len__ in any order.                                                   *)
(***************************************************************************)
\* no call is in progress: the constructor or the last call has returned
Idle == op \in {"__init__", "idle"}

\* the call returns to its caller, which takes the outcome
Return ==
    /\ ~Idle
    /\ op' = "idle"
    /\ args' = <<>>
    /\ result' = Ok(<<>>)
    /\ UNCHANGED <<vocabulary, special_tokens, tokens>>

VocabInit ==
    /\ special_tokens \in SeqsUpTo(Tokens, MaxSpecial)
    /\ tokens \in SeqsUpTo(Tokens, MaxTokens)
    /\ vocabulary = VocabularyInit(tokens, special_tokens)
    /\ op = "__init__"
    /\ args = <<>>
    /\ result = Ok(<<>>)

add_token(token) ==
    /\ vocabulary' = AddToken(vocabulary, token)
    /\ op' = "add_token"
    /\ args' = [token |-> token, known |-> token \in DOMAIN vocabulary.token2idx]
    /\ result' = Ok(<<>>)
    /\ UNCHANGED <<special_tokens, tokens>>

\* __call__ registering the token it does not know
callLearning(token) ==
    /\ op' = "__call__"
    /\ args' = [token |-> token]
    /\ result' = VocabularyCall(vocabulary, token)
    /\ vocabulary' = AddToken(vocabulary, token)
    /\ UNCHANGED <<special_tokens, tokens>>

call(token) ==
    /\ op' = "__call__"
    /\ args' = [token |-> token]
    /\ result' = VocabularyCall(vocabulary, token)
    /\ UNCHANGED <<vocabulary, special_tokens, tokens>>

len ==
    /\ op' = "__len__"
    /\ args' = <<>>
    /\ result' = Ok(VocabularyLen(vocabulary))
    /\ UNCHANGED <<vocabulary, special_tokens, tokens>>

\* a call is made only once the previous one has returned
VocabNext ==
    \/ Idle /\ \E token \in Tokens : add_token(token)
    \/ Idle /\ \E token \in Tokens : call(token)
    \/ Idle /\ len
    \/ Return

SpecVocab == VocabInit /\ [][VocabNext]_vars

(***************************************************************************)
(* class Tokenizer                                                         *)
(***************************************************************************)
\* Tokenizer.get_vocabulary_size
GetVocabularySize(v) == VocabularyLen(v)

\* Tokenizer.convert_tokens_to_indices
\* convert_tokens_to_indices leaving out the tokens that are not registered
ConvertTokensToIndicesSkipUnknown(v, tks) ==
    LET known == SelectSeq(tks, LAMBDA t : t \in DOMAIN v.token2idx)
    IN  Ok([i \in DOMAIN known |-> v.token2idx[known[i]]])

ConvertTokensToIndices(v, tks) ==
    IF \E i \in DOMAIN tks : VocabularyCall(v, tks[i]).err # "none"
    THEN Raise("UnknownToken")
    ELSE Ok([i \in DOMAIN tks |-> VocabularyCall(v, tks[i]).val])

\* Tokenizer.convert_indices_to_tokens
ConvertIndicesToTokens(v, indices) ==
    IF \E i \in DOMAIN indices : Idx2Token(v, indices[i]).err # "none"
    THEN Raise("KeyError")
    ELSE Ok([i \in DOMAIN indices |-> Idx2Token(v, indices[i]).val])

\* batch_encode_2d, lines 175-176: the truncation
Truncate2D(batch, truncation, max_length) ==
    IF truncation
    THEN [r \in DOMAIN batch |-> Slice(batch[r], max_length)]
    ELSE batch

\* the padding of batch_encode_2d skipping an empty batch instead of failing
Pad2DEmptyOk(batch, padding) ==
    IF padding /\ batch # <<>>
    THEN LET batch_max_length == SeqMax([r \in DOMAIN batch |-> Len(batch[r])])
         IN  Ok([r \in DOMAIN batch |->
                   batch[r] \o Repeat(PAD, batch_max_length - Len(batch[r]))])
    ELSE Ok(batch)

\* batch_encode_2d, lines 177-182: the padding
Pad2D(batch, padding) ==
    IF padding
    THEN IF batch = <<>>
         THEN Raise("EmptyMax")
         ELSE LET batch_max_length == SeqMax([r \in DOMAIN batch |-> Len(batch[r])])
              IN  Ok([r \in DOMAIN batch |->
                        batch[r] \o Repeat(PAD, batch_max_length - Len(batch[r]))])
    ELSE Ok(batch)

\* batch_encode_2d, line 183: every token through the vocabulary
Resolve2D(v, batch) ==
    IF \E r \in DOMAIN batch : ConvertTokensToIndices(v, batch[r]).err # "none"
    THEN Raise("UnknownToken")
    ELSE Ok([r \in DOMAIN batch |-> ConvertTokensToIndices(v, batch[r]).val])

\* batch_encode_2d padding every row to max_length, not to the batch's longest
BatchEncode2DFixedWidth(v, batch, padding, truncation, max_length) ==
    LET cut == Truncate2D(batch, truncation, max_length)
    IN  IF padding
        THEN Resolve2D(v, [r \in DOMAIN cut |->
                             cut[r] \o Repeat(PAD, max_length - Len(cut[r]))])
        ELSE Resolve2D(v, cut)

\* Tokenizer.batch_encode_2d
BatchEncode2D(v, batch, padding, truncation, max_length) ==
    LET padded == Pad2D(Truncate2D(batch, truncation, max_length), padding)
    IN  IF padded.err # "none" THEN padded ELSE Resolve2D(v, padded.val)

\* list with its trailing run of x removed
RECURSIVE StripTrailing(_, _)
StripTrailing(s, x) ==
    IF s # <<>> /\ s[Len(s)] = x THEN StripTrailing(SubSeq(s, 1, Len(s) - 1), x) ELSE s

\* batch_decode_2d removing only the padding at the end of a row
BatchDecode2DTrailingOnly(v, batch, padding) ==
    IF \E r \in DOMAIN batch : ConvertIndicesToTokens(v, batch[r]).err # "none"
    THEN Raise("KeyError")
    ELSE LET decoded == [r \in DOMAIN batch |-> ConvertIndicesToTokens(v, batch[r]).val]
         IN  IF ~padding
             THEN Ok([r \in DOMAIN decoded |-> StripTrailing(decoded[r], PAD)])
             ELSE Ok(decoded)

\* batch_decode_2d taking index 0 for the padding, whatever token holds it
BatchDecode2DDropIndexZero(v, batch, padding) ==
    IF \E r \in DOMAIN batch : ConvertIndicesToTokens(v, batch[r]).err # "none"
    THEN Raise("KeyError")
    ELSE IF ~padding
         THEN Ok([r \in DOMAIN batch |->
                    ConvertIndicesToTokens(v, FilterOut(batch[r], 0)).val])
         ELSE Ok([r \in DOMAIN batch |-> ConvertIndicesToTokens(v, batch[r]).val])

\* Tokenizer.batch_decode_2d
BatchDecode2D(v, batch, padding) ==
    IF \E r \in DOMAIN batch : ConvertIndicesToTokens(v, batch[r]).err # "none"
    THEN Raise("KeyError")
    ELSE LET decoded == [r \in DOMAIN batch |-> ConvertIndicesToTokens(v, batch[r]).val]
         IN  IF ~padding
             THEN Ok([r \in DOMAIN decoded |-> FilterOut(decoded[r], PAD)])
             ELSE Ok(decoded)

\* batch_encode_3d, lines 219-222: the two truncations (padding, truncation
\* and max_length are pairs; Python's [0] and [1] are [1] and [2] here)
Truncate3D(batch, truncation, max_length) ==
    LET dim0 == IF truncation[1]
                THEN [p \in DOMAIN batch |-> Slice(batch[p], max_length[1])]
                ELSE batch
    IN  IF truncation[2]
        THEN [p \in DOMAIN dim0 |->
                [k \in DOMAIN dim0[p] |-> Slice(dim0[p][k], max_length[2])]]
        ELSE dim0

\* batch_encode_3d, lines 223-228: the padding of the visits
PadVisits3D(batch, padding) ==
    IF padding[1]
    THEN IF batch = <<>>
         THEN Raise("EmptyMax")
         ELSE LET batch_max_length == SeqMax([p \in DOMAIN batch |-> Len(batch[p])])
              IN  Ok([p \in DOMAIN batch |->
                        batch[p] \o Repeat(<<PAD>>, batch_max_length - Len(batch[p]))])
    ELSE Ok(batch)

\* batch_encode_3d, lines 229-239: the padding of the codes
PadCodes3D(batch, padding) ==
    IF padding[2]
    THEN IF batch = <<>> \/ \E p \in DOMAIN batch : batch[p] = <<>>
         THEN Raise("EmptyMax")
         ELSE LET batch_max_length ==
                      SeqMax([p \in DOMAIN batch |->
                                SeqMax([k \in DOMAIN batch[p] |-> Len(batch[p][k])])])
              IN  Ok([p \in DOMAIN batch |->
                        [k \in DOMAIN batch[p] |->
                           batch[p][k]
                             \o Repeat(PAD, batch_max_length - Len(batch[p][k]))]])
    ELSE Ok(batch)

\* batch_encode_3d, lines 240-243: every token through the vocabulary
Resolve3D(v, batch) ==
    IF \E p \in DOMAIN batch : Resolve2D(v, batch[p]).err # "none"
    THEN Raise("UnknownToken")
    ELSE Ok([p \in DOMAIN batch |-> Resolve2D(v, batch[p]).val])

\* batch_encode_3d measuring and padding the codes before it pads the visits
BatchEncode3DCodesFirst(v, batch, padding, truncation, max_length) ==
    LET codes == PadCodes3D(Truncate3D(batch, truncation, max_length), padding)
    IN  IF codes.err # "none" THEN codes
        ELSE LET visits == PadVisits3D(codes.val, padding)
             IN  IF visits.err # "none" THEN visits ELSE Resolve3D(v, visits.val)

\* Tokenizer.batch_encode_3d
BatchEncode3D(v, batch, padding, truncation, max_length) ==
    LET visits == PadVisits3D(Truncate3D(batch, truncation, max_length), padding)
    IN  IF visits.err # "none" THEN visits
        ELSE LET codes == PadCodes3D(visits.val, padding)
             IN  IF codes.err # "none" THEN codes ELSE Resolve3D(v, codes.val)

\* batch_decode_3d dropping the empty visits whatever padding says
BatchDecode3DAlwaysDrop(v, batch, padding) ==
    IF \E p \in DOMAIN batch : BatchDecode2D(v, batch[p], padding).err # "none"
    THEN Raise("KeyError")
    ELSE Ok([p \in DOMAIN batch |->
               FilterOut(BatchDecode2D(v, batch[p], padding).val, <<>>)])

\* batch_decode_3d keeping the visits left empty by the 2-d decoder
BatchDecode3DKeepEmpty(v, batch, padding) ==
    IF \E p \in DOMAIN batch : BatchDecode2D(v, batch[p], padding).err # "none"
    THEN Raise("KeyError")
    ELSE Ok([p \in DOMAIN batch |-> BatchDecode2D(v, batch[p], padding).val])

\* Tokenizer.batch_decode_3d
BatchDecode3D(v, batch, padding) ==
    IF \E p \in DOMAIN batch : BatchDecode2D(v, batch[p], padding).err # "none"
    THEN Raise("KeyError")
    ELSE LET decoded == [p \in DOMAIN batch |-> BatchDecode2D(v, batch[p], padding).val]
         IN  IF ~padding
             THEN Ok([p \in DOMAIN decoded |-> FilterOut(decoded[p], <<>>)])
             ELSE Ok(decoded)

(***************************************************************************)
(* The Tokenizer: constructed around its Vocabulary, then called in any    *)
(* order.                                                                  *)
(***************************************************************************)
\* max_length: int = 512
DefaultMaxLength == 512
\* max_length: Tuple[int, int] = (10, 512)
DefaultMaxVisits == 10

\* the max_length a caller passes: ignored unless truncation is enabled
MaxLengths(truncation, default) ==
    IF truncation THEN 0..MaxMaxLength \cup {default} ELSE {default}

\* the indices a caller passes to a decoder: those assigned, and the two just
\* outside
Indices == (0 - 1)..vocabulary.idx

Init ==
    /\ special_tokens \in {<<>>, <<PAD>>, <<UNK>>, <<PAD, UNK>>}
    /\ tokens = <<"a">>
    /\ vocabulary = VocabularyInit(tokens, special_tokens)
    /\ op = "__init__"
    /\ args = <<>>
    /\ result = Ok(<<>>)

\* The caller's list once the call has returned.  The code only reads the
\* list it is given: the slices (line 176), the + (line 180) and the
\* comprehensions build new lists, and the assignments to batch rebind the
\* local name.
ArgAfterConvert(list) == list

\* batch_encode_2d padding the caller's rows in place (tokens += ...)
ArgAfterEncode2DInPlace(batch, padding, truncation, max_length) ==
    IF padding /\ ~truncation /\ batch # <<>>
    THEN LET batch_max_length == SeqMax([r \in DOMAIN batch |-> Len(batch[r])])
         IN  [r \in DOMAIN batch |->
                batch[r] \o Repeat(PAD, batch_max_length - Len(batch[r]))]
    ELSE batch

ArgAfterEncode2D(batch, padding, truncation, max_length) == batch

ArgAfterDecode2D(batch, padding) == batch

ArgAfterEncode3D(batch, padding, truncation, max_length) == batch

ArgAfterDecode3D(batch, padding) == batch

get_vocabulary_size ==
    /\ op' = "get_vocabulary_size"
    /\ args' = <<>>
    /\ result' = Ok(GetVocabularySize(vocabulary))
    /\ UNCHANGED <<vocabulary, special_tokens, tokens>>

convert_tokens_to_indices(tks) ==
    /\ op' = "convert_tokens_to_indices"
    /\ args' = [tokens |-> tks, after |-> ArgAfterConvert(tks)]
    /\ result' = ConvertTokensToIndices(vocabulary, tks)
    /\ UNCHANGED <<vocabulary, special_tokens, tokens>>

convert_indices_to_tokens(indices) ==
    /\ op' = "convert_indices_to_tokens"
    /\ args' = [indices |-> indices, after |-> ArgAfterConvert(indices)]
    /\ result' = ConvertIndicesToTokens(vocabulary, indices)
    /\ UNCHANGED <<vocabulary, special_tokens, tokens>>

batch_encode_2d(batch, padding, truncation, max_length) ==
    /\ op' = "batch_encode_2d"
    /\ args' = [batch |-> batch, padding |-> padding, truncation |-> truncation,
                max_length |-> max_length,
                after |-> ArgAfterEncode2D(batch, padding, truncation, max_length)]
    /\ result' = BatchEncode2D(vocabulary, batch, padding, truncation, max_length)
    /\ UNCHANGED <<vocabulary, special_tokens, tokens>>

batch_decode_2d(batch, padding) ==
    /\ op' = "batch_decode_2d"
    /\ args' = [batch |-> batch, padding |-> padding,
                after |-> ArgAfterDecode2D(batch, padding)]
    /\ result' = BatchDecode2D(vocabulary, batch, padding)
    /\ UNCHANGED <<vocabulary, special_tokens, tokens>>

batch_encode_3d(batch, padding, truncation, max_length) ==
    /\ op' = "batch_encode_3d"
    /\ args' = [batch |-> batch, padding |-> padding, truncation |-> truncation,
                max_length |-> max_length,
                after |-> ArgAfterEncode3D(batch, padding, truncation, max_length)]
    /\ result' = BatchEncode3D(vocabulary, batch, padding, truncation, max_length)
    /\ UNCHANGED <<vocabulary, special_tokens, tokens>>

batch_decode_3d(batch, padding) ==
    /\ op' = "batch_decode_3d"
    /\ args' = [batch |-> batch, padding |-> padding,
                after |-> ArgAfterDecode3D(batch, padding)]
    /\ result' = BatchDecode3D(vocabulary, batch, padding)
    /\ UNCHANGED <<vocabulary, special_tokens, tokens>>

\* a call is made only once the previous one has returned
Next ==
    \/ Idle /\ \E token \in Tokens : call(token)
    \/ Idle /\ get_vocabulary_size
    \/ Idle /\ \E tks \in SeqsUpTo(Tokens, MaxSize1D) : convert_tokens_to_indices(tks)
    \/ Idle /\ \E indices \in SeqsUpTo(Indices, MaxSize1D) :
                  convert_indices_to_tokens(indices)
    \/ Idle /\ \E batch \in Batches2D(Tokens, MaxSize2D), padding, truncation \in BOOLEAN :
                  \E max_length \in MaxLengths(truncation, DefaultMaxLength) :
                     batch_encode_2d(batch, padding, truncation, max_length)
    \/ Idle /\ \E batch \in Batches2D(Indices, MaxSize2D), padding \in BOOLEAN :
                  batch_decode_2d(batch, padding)
    \/ Idle /\ \E batch \in Batches3D(Tokens, MaxSize3D),
                     padding, truncation \in BOOLEAN \X BOOLEAN :
                  \E max_visits \in MaxLengths(truncation[1], DefaultMaxVisits),
                     max_codes \in MaxLengths(truncation[2], DefaultMaxLength) :
                     batch_encode_3d(batch, padding, truncation, <<max_visits, max_codes>>)
    \/ Idle /\ \E batch \in Batches3D(Indices, MaxSize3D), padding \in BOOLEAN :
                  batch_decode_3d(batch, padding)
    \/ Return

Spec == Init /\ [][Next]_vars

(***************************************************************************)
(* tasks/length_of_stay_prediction.py: categorize_los, called with any     *)
(* number of days; it uses neither the Vocabulary nor the Tokenizer.       *)
(***************************************************************************)
\* categorize_los counting day 7 to the second week
CategorizeLosShortWeek(days) ==
    IF days < 1 THEN 0
    ELSE IF 1 <= days /\ days < 7 THEN days
    ELSE IF 7 <= days /\ days <= 14 THEN 8
    ELSE 9

CategorizeLos(days) ==
    IF days < 1 THEN 0
    ELSE IF 1 <= days /\ days <= 7 THEN days
    ELSE IF 7 < days /\ days <= 14 THEN 8
    ELSE 9

\* the lengths of stay the callers pass
LosDays == (0 - MaxDays)..MaxDays

LosInit ==
    /\ special_tokens = <<>>
    /\ tokens = <<>>
    /\ vocabulary = EmptyVocabulary
    /\ op = "idle"
    /\ args = <<>>
    /\ result = Ok(<<>>)

categorize_los(days) ==
    /\ op' = "categorize_los"
    /\ args' = [days |-> days]
    /\ result' = Ok(CategorizeLos(days))
    /\ UNCHANGED <<vocabulary, special_tokens, tokens>>

LosNext ==
    \/ Idle /\ \E days \in LosDays : categorize_los(days)
    \/ Return

SpecLos == LosInit /\ [][LosNext]_vars

(***************************************************************************)
(* Vocabulary: the properties.                                             *)
(***************************************************************************)
\* Size()
Size == VocabularyLen(vocabulary)

\* the set of a list's elements
Elems(s) == {s[i] : i \in DOMAIN s}

\* a list's distinct elements in first-occurrence order
RECURSIVE FirstOccurrences(_)
FirstOccurrences(s) ==
    IF s = <<>> THEN <<>>
    ELSE <<Head(s)>> \o FilterOut(FirstOccurrences(Tail(s)), Head(s))

\* C1: token2idx and idx2token are exact inverses after construction and after
\* any add_token calls: Lookup(ReverseLookup(i)) = i for every index i in
\* 0..Size()-1 and ReverseLookup(Lookup(t)) = t for every registered token t.
C1_Bijection ==
    /\ \A i \in 0..(Size - 1) :
          /\ Idx2Token(vocabulary, i).err = "none"
          /\ VocabularyCall(vocabulary, Idx2Token(vocabulary, i).val) = Ok(i)
    /\ \A t \in DOMAIN vocabulary.token2idx :
          Idx2Token(vocabulary, VocabularyCall(vocabulary, t).val) = Ok(t)

\* C1 witness: built from lists with a repeated token, then add_token has
\* registered a new token.
C1_Witness ==
    /\ op = "add_token" /\ ~args.known
    /\ Len(special_tokens \o tokens) > Cardinality(Elems(special_tokens \o tokens))
    /\ Size >= 3

\* the state part of C2
C2_Dense ==
    /\ DOMAIN vocabulary.idx2token = 0..(Size - 1)
    /\ {vocabulary.token2idx[t] : t \in DOMAIN vocabulary.token2idx} = 0..(Size - 1)
    /\ vocabulary.idx = Size
    /\ LET first == FirstOccurrences(special_tokens \o tokens)
       IN  /\ \A k \in DOMAIN first :
                 /\ first[k] \in DOMAIN vocabulary.token2idx
                 /\ vocabulary.token2idx[first[k]] = k - 1
           /\ op = "__init__" => Size = Len(first)

\* the step part of C2: add_token of a registered token changes nothing
C2_Readd ==
    \A t \in DOMAIN vocabulary.token2idx :
        (op' = "add_token" /\ args'.token = t) => vocabulary' = vocabulary

\* C2: the indices are exactly 0..Size()-1 and the counter is Size(); the k-th
\* distinct token of specialTokens ++ tokens in first-occurrence order holds
\* index k (counted from 0), so the size after construction is the number of
\* distinct tokens; add_token of a registered token changes no index, nor
\* the counter, nor Size().
C2_InsertionOrder == [](C2_Dense) /\ [][C2_Readd]_vars

\* C2 witness: add_token was called on a token registered by construction
\* from lists holding a duplicate.
C2_Witness ==
    /\ op = "add_token" /\ args.known
    /\ Len(special_tokens \o tokens) > Cardinality(Elems(special_tokens \o tokens))
    /\ Size >= 2

\* C3: every special token's index is smaller than the index of every
\* registered token that is not a special token.
C3_SpecialFirst ==
    \A s \in Elems(special_tokens) :
        \A t \in DOMAIN vocabulary.token2idx \ Elems(special_tokens) :
            /\ s \in DOMAIN vocabulary.token2idx
            /\ vocabulary.token2idx[s] < vocabulary.token2idx[t]

\* C3 witness: just constructed; a special token is repeated in tokens, ahead
\* of a token that is not special.
C3_Witness ==
    /\ op = "__init__"
    /\ Len(tokens) >= 2
    /\ tokens[1] \in Elems(special_tokens)
    /\ tokens[2] \notin Elems(special_tokens)
    /\ Len(special_tokens) >= 1

(***************************************************************************)
(* Tokenizer: the properties.                                              *)
(***************************************************************************)
Min(a, b) == IF a <= b THEN a ELSE b

\* the largest element of a non-empty set of integers
SetMax(S) == CHOOSE m \in S : \A x \in S : x <= m

\* token is a key of token2idx
Registered(token) == token \in DOMAIN vocabulary.token2idx

\* Lookup(token) returns an index
Resolves(token) == Registered(token) \/ Registered(UNK)

\* the index Lookup(token) returns when it returns one
LookupIndex(token) ==
    IF Registered(token) THEN vocabulary.token2idx[token] ELSE vocabulary.token2idx[UNK]

\* the tokens of a list, of a list of lists, of a list of lists of lists
Tokens1D(s) == {s[i] : i \in DOMAIN s}
Tokens2D(b) == UNION {Tokens1D(b[r]) : r \in DOMAIN b}
Tokens3D(b) == UNION {Tokens2D(b[p]) : p \in DOMAIN b}

\* the outcome is the element-wise Lookup of a list / of a batch, or the
\* UnknownToken failure when one of the tokens has no index
IsLookup1D(res, s) ==
    IF \A t \in Tokens1D(s) : Resolves(t)
    THEN /\ res.err = "none"
         /\ DOMAIN res.val = DOMAIN s
         /\ \A i \in DOMAIN s : res.val[i] = LookupIndex(s[i])
    ELSE res.err = "UnknownToken"

IsLookup2D(res, b) ==
    IF \A t \in Tokens2D(b) : Resolves(t)
    THEN /\ res.err = "none"
         /\ DOMAIN res.val = DOMAIN b
         /\ \A r \in DOMAIN b : IsLookup1D(Ok(res.val[r]), b[r])
    ELSE res.err = "UnknownToken"

IsLookup3D(res, b) ==
    IF \A t \in Tokens3D(b) : Resolves(t)
    THEN /\ res.err = "none"
         /\ DOMAIN res.val = DOMAIN b
         /\ \A p \in DOMAIN b : IsLookup2D(Ok(res.val[p]), b[p])
    ELSE res.err = "UnknownToken"

\* C4: Lookup returns a registered token's own index, <unk>'s index for an
\* unregistered token when <unk> is registered, and fails with UnknownToken
\* otherwise; convert_tokens_to_indices, batch_encode_2d and batch_encode_3d
\* resolve every token of the truncated and padded batch in this way, at
\* any depth, and fail as a whole when one of them has no index.
C4_Fallback ==
    /\ op = "__call__" =>
          IF Resolves(args.token)
          THEN result.err = "none" /\ result.val = LookupIndex(args.token)
          ELSE result.err = "UnknownToken"
    /\ op = "convert_tokens_to_indices" => IsLookup1D(result, args.tokens)
    /\ op = "batch_encode_2d" =>
          LET shaped == Pad2D(Truncate2D(args.batch, args.truncation, args.max_length),
                              args.padding)
          IN  shaped.err = "none" => IsLookup2D(result, shaped.val)
    /\ op = "batch_encode_3d" =>
          LET visits == PadVisits3D(Truncate3D(args.batch, args.truncation,
                                               args.max_length), args.padding)
              codes == IF visits.err = "none"
                       THEN PadCodes3D(visits.val, args.padding) ELSE visits
          IN  codes.err = "none" => IsLookup3D(result, codes.val)

\* C4 witness: batch_encode_3d returned with <unk>'s index for an unregistered
\* token in the second patient of the batch.
C4_Witness ==
    /\ op = "batch_encode_3d" /\ result.err = "none"
    /\ ~args.padding[1] /\ ~args.padding[2]
    /\ ~args.truncation[1] /\ ~args.truncation[2]
    /\ \E p \in DOMAIN args.batch : \E k \in DOMAIN args.batch[p] :
          \E c \in DOMAIN args.batch[p][k] :
             /\ p >= 2
             /\ ~Registered(args.batch[p][k][c])
             /\ result.val[p][k][c] = vocabulary.token2idx[UNK]

\* the number of tokens batch_encode_2d keeps of row r
Kept2D(r) ==
    IF args.truncation THEN Min(Len(args.batch[r]), args.max_length)
    ELSE Len(args.batch[r])

\* C5: batch_encode_2d with padding and truncation, on a non-empty batch,
\* max_length >= 0 and <pad> registered, returns rows that all have the
\* width W = the largest over the rows of min(len(row), max_length); a row
\* starts with the Lookup of its first min(len(row), max_length) tokens, in
\* order, and continues with <pad>'s index; W <= max_length.  (It fails
\* with UnknownToken when one of the kept tokens has no index.)
C5_Rectangular ==
    (/\ op = "batch_encode_2d" /\ args.padding /\ args.truncation
     /\ args.batch # <<>> /\ args.max_length >= 0 /\ Registered(PAD))
    => LET batch == args.batch
           W == SetMax({Kept2D(r) : r \in DOMAIN batch})
       IN  IF \A r \in DOMAIN batch : \A c \in 1..Kept2D(r) : Resolves(batch[r][c])
           THEN /\ result.err = "none"
                /\ DOMAIN result.val = DOMAIN batch
                /\ W <= args.max_length
                /\ \A r \in DOMAIN batch :
                      /\ DOMAIN result.val[r] = 1..W
                      /\ \A c \in 1..W :
                            result.val[r][c] =
                               IF c <= Kept2D(r) THEN LookupIndex(batch[r][c])
                               ELSE vocabulary.token2idx[PAD]
           ELSE result.err = "UnknownToken"

\* C5 witness: a row was cut to max_length and a shorter row was padded; an
\* unregistered token became <unk>'s index.
C5_Witness ==
    /\ op = "batch_encode_2d" /\ args.padding /\ args.truncation
    /\ Registered(PAD) /\ result.err = "none"
    /\ \E r1, r2 \in DOMAIN args.batch :
          /\ Len(args.batch[r1]) > args.max_length
          /\ Len(args.batch[r2]) < args.max_length
          /\ ~Registered(args.batch[r1][1])

\* the number of visits batch_encode_3d keeps of patient p, and of codes it
\* keeps of the patient's visit k
KeptVisits(p) ==
    IF args.truncation[1] THEN Min(Len(args.batch[p]), args.max_length[1])
    ELSE Len(args.batch[p])

KeptCodes(p, k) ==
    IF args.truncation[2] THEN Min(Len(args.batch[p][k]), args.max_length[2])
    ELSE Len(args.batch[p][k])

\* the kept visits of the batch, as pairs <<patient, visit>>
KeptVisitSet == UNION {{<<p, k>> : k \in 1..KeptVisits(p)} : p \in DOMAIN args.batch}

\* every kept token of the 3-d batch has an index
KeptResolve3D ==
    \A pk \in KeptVisitSet : \A c \in 1..KeptCodes(pk[1], pk[2]) :
        Resolves(args.batch[pk[1]][pk[2]][c])

\* the largest number of kept visits of a patient
MaxVisits3D == SetMax({KeptVisits(p) : p \in DOMAIN args.batch})

\* C6: batch_encode_3d with padding=(true,true) and <pad> registered, when
\* the batch holds a visit and every kept token has an index: every patient
\* of the output has V visits, V the largest visit count after the
\* truncation of the visits; every visit has W codes, W the largest code
\* count after the truncation of the codes over the kept visits and the
\* placeholder visits (one <pad> each) that the padding of the visits
\* appended; kept codes are looked up, every other entry is <pad>'s index.
C6_PadVisitsFirst ==
    (/\ op = "batch_encode_3d" /\ args.padding = <<TRUE, TRUE>> /\ Registered(PAD)
     /\ args.batch # <<>> /\ MaxVisits3D >= 1 /\ KeptResolve3D)
    => LET batch == args.batch
           V == MaxVisits3D
           W == SetMax({KeptCodes(pk[1], pk[2]) : pk \in KeptVisitSet}
                         \cup {1 : p \in {q \in DOMAIN batch : KeptVisits(q) < V}})
       IN  /\ result.err = "none"
           /\ DOMAIN result.val = DOMAIN batch
           /\ \A p \in DOMAIN batch :
                 /\ DOMAIN result.val[p] = 1..V
                 /\ \A k \in 1..V :
                       /\ DOMAIN result.val[p][k] = 1..W
                       /\ \A c \in 1..W :
                             result.val[p][k][c] =
                                IF k <= KeptVisits(p) /\ c <= KeptCodes(p, k)
                                THEN LookupIndex(batch[p][k][c])
                                ELSE vocabulary.token2idx[PAD]

\* C6 witness: every kept visit is empty and a patient got a placeholder
\* visit, whose single <pad> sets the width of every visit to 1.
C6_Witness ==
    /\ op = "batch_encode_3d" /\ args.padding = <<TRUE, TRUE>> /\ Registered(PAD)
    /\ result.err = "none"
    /\ Len(args.batch) = 2
    /\ KeptVisits(1) = 2 /\ KeptVisits(2) = 1
    /\ \A pk \in KeptVisitSet : KeptCodes(pk[1], pk[2]) = 0
    /\ result.val[1][1] = <<vocabulary.token2idx[PAD]>>

\* C7: decoding, with padding=false, the encoding with padding=false and
\* truncation=false of a batch whose tokens are all registered and are not
\* <pad> gives the batch back.
C7_RoundTrip2D ==
    (/\ op = "batch_encode_2d" /\ ~args.padding /\ ~args.truncation
     /\ \A t \in Tokens2D(args.batch) : Registered(t) /\ t # PAD)
    => /\ result.err = "none"
       /\ LET back == BatchDecode2D(vocabulary, result.val, FALSE)
          IN  back.err = "none" /\ back.val = args.batch

\* C7 witness: a batch of two rows, one of them holding two different tokens,
\* was encoded without padding and truncation.
C7_Witness ==
    /\ op = "batch_encode_2d" /\ ~args.padding /\ ~args.truncation
    /\ result.err = "none"
    /\ \A t \in Tokens2D(args.batch) : Registered(t) /\ t # PAD
    /\ Len(args.batch) = 2
    /\ \E r \in DOMAIN args.batch :
          Len(args.batch[r]) = 2 /\ args.batch[r][1] # args.batch[r][2]

\* every index of the batch given to a decoder is one of 0..Size()-1
InRange2D(b) == \A r \in DOMAIN b : \A c \in DOMAIN b[r] : b[r][c] \in 0..(Size - 1)
InRange3D(b) == \A p \in DOMAIN b : InRange2D(b[p])

\* out is s with every element equal to x removed, the others in order
IsWithout(out, s, x) ==
    LET keep == {i \in DOMAIN s : s[i] # x}
    IN  /\ DOMAIN out = 1..Cardinality(keep)
        /\ \A i \in keep : out[Cardinality({j \in keep : j <= i})] = s[i]

\* C8: batch_decode_2d of in-range indices: with padding=false a row of the
\* output is the row's tokens in order without the <pad> tokens, wherever
\* they sit; with padding=true the output has the input's shape, each entry
\* the token of its index.
C8_Decode2D ==
    (op = "batch_decode_2d" /\ InRange2D(args.batch))
    => /\ result.err = "none"
       /\ DOMAIN result.val = DOMAIN args.batch
       /\ \A r \in DOMAIN args.batch :
             LET row == [c \in DOMAIN args.batch[r] |->
                            vocabulary.idx2token[args.batch[r][c]]]
             IN  IF args.padding
                 THEN result.val[r] = row
                 ELSE IsWithout(result.val[r], row, PAD)

\* C8 witness: decoded with padding=false a row with <pad> in front of
\* another token.
C8_Witness ==
    /\ op = "batch_decode_2d" /\ ~args.padding /\ InRange2D(args.batch)
    /\ \E r \in DOMAIN args.batch :
          /\ Len(args.batch[r]) >= 2
          /\ vocabulary.idx2token[args.batch[r][1]] = PAD
          /\ vocabulary.idx2token[args.batch[r][2]] # PAD
          /\ Len(result.val[r]) = Len(args.batch[r]) - 1

\* the tokens of visit k of patient p of the batch given to batch_decode_3d
VisitTokens(p, k) ==
    [c \in DOMAIN args.batch[p][k] |-> vocabulary.idx2token[args.batch[p][k][c]]]

\* C9: batch_decode_3d of in-range indices: with padding=false a patient of
\* the output holds, in order and without their <pad> tokens, exactly the
\* visits that have a token other than <pad>; with padding=true no visit is
\* dropped, and the output has the input's shape, each entry the token of
\* its index.
C9_Decode3D ==
    (op = "batch_decode_3d" /\ InRange3D(args.batch))
    => /\ result.err = "none"
       /\ DOMAIN result.val = DOMAIN args.batch
       /\ \A p \in DOMAIN args.batch :
             IF args.padding
             THEN /\ DOMAIN result.val[p] = DOMAIN args.batch[p]
                  /\ \A k \in DOMAIN args.batch[p] : result.val[p][k] = VisitTokens(p, k)
             ELSE LET keep == {k \in DOMAIN args.batch[p] :
                                 \E c \in DOMAIN args.batch[p][k] : VisitTokens(p, k)[c] # PAD}
                  IN  /\ DOMAIN result.val[p] = 1..Cardinality(keep)
                      /\ \A k \in keep :
                            IsWithout(result.val[p][Cardinality({j \in keep : j <= k})],
                                      VisitTokens(p, k), PAD)

\* C9 witness: decoded with padding=false a patient whose first visit holds
\* only <pad> and was dropped, and whose second visit was kept.
C9_Witness ==
    /\ op = "batch_decode_3d" /\ ~args.padding /\ InRange3D(args.batch)
    /\ \E p \in DOMAIN args.batch :
          /\ Len(args.batch[p]) = 2
          /\ VisitTokens(p, 1) = <<PAD>>
          /\ Len(VisitTokens(p, 2)) = 1 /\ VisitTokens(p, 2) # <<PAD>>
          /\ result.val[p] = <<VisitTokens(p, 2)>>

\* padding is enabled and <pad> is not registered
PaddingWithoutPad ==
    /\ ~Registered(PAD)
    /\ \/ op = "batch_encode_2d" /\ args.padding
       \/ op = "batch_encode_3d" /\ (args.padding[1] \/ args.padding[2])

\* C10 as stated: batch_encode_2d with padding=true, and batch_encode_3d with
\* padding enabled in either dimension, on a vocabulary without <pad>, fail
\* instead of returning a result (stated here for the batches that hold a
\* token).
C10_Original ==
    (/\ PaddingWithoutPad
     /\ IF op = "batch_encode_2d" THEN Tokens2D(args.batch) # {}
        ELSE Tokens3D(args.batch) # {})
    => result.err # "none"

\* the 2-d case of C10
C10_2D ==
    (op = "batch_encode_2d" /\ args.padding /\ ~Registered(PAD) /\ args.batch # <<>>)
    => LET batch == args.batch
           W == SetMax({Kept2D(r) : r \in DOMAIN batch})
           appended == \E r \in DOMAIN batch : Kept2D(r) < W
           kept == \A r \in DOMAIN batch : \A c \in 1..Kept2D(r) : Resolves(batch[r][c])
       IN  IF Registered(UNK)
           THEN /\ result.err = "none"
                /\ \A r \in DOMAIN batch : \A c \in (Kept2D(r) + 1)..W :
                      result.val[r][c] = vocabulary.token2idx[UNK]
           ELSE IF appended \/ ~kept
                THEN result.err = "UnknownToken"
                ELSE result.err = "none"

\* the 3-d case of C10
C10_3D ==
    (/\ op = "batch_encode_3d" /\ (args.padding[1] \/ args.padding[2]) /\ ~Registered(PAD)
     /\ args.batch # <<>>
     /\ args.padding[2] =>
           \A p \in DOMAIN args.batch :
               (IF args.padding[1] THEN MaxVisits3D ELSE KeptVisits(p)) >= 1)
    => LET batch == args.batch
           appended ==
               \/ args.padding[1] /\ \E p \in DOMAIN batch : KeptVisits(p) < MaxVisits3D
               \/ /\ args.padding[2]
                  /\ \E pk \in KeptVisitSet :
                        KeptCodes(pk[1], pk[2])
                           < SetMax({KeptCodes(qk[1], qk[2]) : qk \in KeptVisitSet})
       IN  IF Registered(UNK)
           THEN /\ result.err = "none"
                /\ \A p \in DOMAIN result.val : \A k \in DOMAIN result.val[p] :
                      \A c \in DOMAIN result.val[p][k] :
                         (k > KeptVisits(p) \/ c > KeptCodes(p, k))
                            => result.val[p][k][c] = vocabulary.token2idx[UNK]
           ELSE IF appended \/ ~KeptResolve3D
                THEN result.err = "UnknownToken"
                ELSE result.err = "none"

\* C10 (amended): on a vocabulary without <pad>, batch_encode_2d with
\* padding=true and batch_encode_3d with padding enabled in either dimension
\* (on a batch whose maxima exist) fail with UnknownToken exactly when <unk>
\* is not registered either and the call resolves an unregistered token,
\* which it does whenever the padding appends a <pad>; a batch that needs no
\* padding is encoded, and with <unk> registered the call returns with
\* <unk>'s index in every appended position.
C10_PadNeedsIndex == C10_2D /\ C10_3D

\* C10 witness: batch_encode_3d with padding, no <pad> and no <unk>, failed
\* on the <pad> it appended to a batch of registered tokens.
C10_Witness ==
    /\ op = "batch_encode_3d" /\ args.padding = <<FALSE, TRUE>>
    /\ ~Registered(PAD) /\ ~Registered(UNK)
    /\ \A t \in Tokens3D(args.batch) : Registered(t)
    /\ Tokens3D(args.batch) # {}
    /\ result.err = "UnknownToken"

\* the cases C11 lists for batch_encode_3d: padding[0] on an empty batch;
\* padding[1] with a patient without visits when dimension 1 is measured
\* (any such patient when padding[0] is off, all patients when it is on)
C11_Listed3D ==
    \/ args.padding[1] /\ args.batch = <<>>
    \/ /\ args.padding[2]
       /\ IF args.padding[1]
          THEN args.batch # <<>> /\ \A p \in DOMAIN args.batch : KeptVisits(p) = 0
          ELSE \E p \in DOMAIN args.batch : KeptVisits(p) = 0

\* C11 as stated: an encode call fails on a maximum over an empty collection
\* exactly in the listed cases, and an empty collection in a dimension whose
\* padding is disabled causes no failure.
C11_Original ==
    /\ op = "batch_encode_2d" =>
          (result.err = "EmptyMax" <=> (args.padding /\ args.batch = <<>>))
    /\ op = "batch_encode_3d" => (result.err = "EmptyMax" <=> C11_Listed3D)

\* C11 (amended): batch_encode_2d fails on max() of an empty list exactly
\* with padding on an empty batch; batch_encode_3d exactly in the listed
\* cases and, besides them, with padding[1] on an empty batch even when
\* padding[0] is disabled; convert_tokens_to_indices never does.  A failed
\* call returns nothing, and with the padding of both dimensions disabled
\* no empty collection makes a call fail.
C11_EmptyMax ==
    /\ op = "convert_tokens_to_indices" => result.err # "EmptyMax"
    /\ op = "batch_encode_2d" =>
          (result.err = "EmptyMax" <=> (args.padding /\ args.batch = <<>>))
    /\ op = "batch_encode_3d" =>
          (result.err = "EmptyMax"
             <=> (C11_Listed3D \/ (args.padding[2] /\ args.batch = <<>>)))
    /\ result.err = "EmptyMax" => result.val = <<>>

\* C11 witness: batch_encode_3d on an empty batch, padding the codes only,
\* failed on max() of an empty list.
C11_Witness ==
    /\ op = "batch_encode_3d" /\ args.padding = <<FALSE, TRUE>>
    /\ args.batch = <<>>
    /\ result.err = "EmptyMax"

\* the state part of C12: the list given to the call is as it was given
C12_InputKept ==
    /\ op = "convert_tokens_to_indices" => args.after = args.tokens
    /\ op = "convert_indices_to_tokens" => args.after = args.indices
    /\ op \in {"batch_encode_2d", "batch_decode_2d", "batch_encode_3d", "batch_decode_3d"}
          => args.after = args.batch

\* the step part of C12: no call and no return changes the vocabulary
C12_VocabularyKept == vocabulary' = vocabulary

\* C12: after construction every call of the Tokenizer (Lookup, the size,
\* the 1-d conversions, the 2-d and 3-d encoders and decoders), a call on
\* unregistered tokens and a failing call too, leaves token2idx, idx2token
\* and the counter as they were, and leaves the list it was given as it was.
C12_ReadOnly == [](C12_InputKept) /\ [][C12_VocabularyKept]_vars

\* C12 witness: batch_encode_2d has padded a batch, and failed on an
\* unregistered token; the vocabulary is the constructed one and the batch
\* the given one.
C12_Witness ==
    /\ op = "batch_encode_2d" /\ args.padding /\ ~args.truncation
    /\ result.err = "UnknownToken"
    /\ \E r1, r2 \in DOMAIN args.batch : Len(args.batch[r1]) < Len(args.batch[r2])
    /\ args.after = args.batch
    /\ vocabulary = VocabularyInit(tokens, special_tokens)

\* every index of a list is one of 0 .. Size-1
InRange1D(s) == \A i \in DOMAIN s : s[i] \in 0..(Size - 1)

\* the decoder's outcome for an input that is in range or not
C13_Outcome(inRange) ==
    IF inRange THEN result.err = "none"
    ELSE result.err = "KeyError" /\ result.val = <<>>

\* C13: convert_indices_to_tokens, batch_decode_2d and batch_decode_3d
\* succeed when every index of the input is in 0 .. Size-1, and fail with a
\* KeyError and no result when the input holds an index outside that range,
\* a negative index and the index Size included.
C13_DecodeRange ==
    /\ op = "convert_indices_to_tokens" => C13_Outcome(InRange1D(args.indices))
    /\ op = "batch_decode_2d" => C13_Outcome(InRange2D(args.batch))
    /\ op = "batch_decode_3d" => C13_Outcome(InRange3D(args.batch))

\* C13 witness: batch_decode_2d has failed on a row that holds a valid
\* index, the index -1 and the index Size.
C13_Witness ==
    /\ op = "batch_decode_2d"
    /\ \E r \in DOMAIN args.batch :
          /\ \E c \in DOMAIN args.batch[r] : args.batch[r][c] \in 0..(Size - 1)
          /\ (0 - 1) \in Elems(args.batch[r])
          /\ Size \in Elems(args.batch[r])
    /\ result.err = "KeyError"

\* C14: convert_tokens_to_indices neither pads nor truncates: on a
\* vocabulary with <unk> registered the output has the length of the input
\* and holds at each position the Lookup of the token there; so
\* convert_indices_to_tokens of the output has the input's length and is the
\* input with each unregistered token replaced by <unk>, every registered
\* token, <pad> included, as it was.
C14_EncodeTokens ==
    (op = "convert_tokens_to_indices" /\ Registered(UNK)) =>
        /\ result.err = "none"
        /\ Len(result.val) = Len(args.tokens)
        /\ \A i \in DOMAIN args.tokens :
              /\ VocabularyCall(vocabulary, args.tokens[i]).err = "none"
              /\ result.val[i] = VocabularyCall(vocabulary, args.tokens[i]).val
        /\ ConvertIndicesToTokens(vocabulary, result.val).err = "none"
        /\ ConvertIndicesToTokens(vocabulary, result.val).val =
              [i \in DOMAIN args.tokens |->
                  IF Registered(args.tokens[i]) THEN args.tokens[i] ELSE UNK]

\* C14 witness: a list holding <pad>, a registered token and an unregistered
\* one has been converted on a vocabulary with <pad> and <unk>.
C14_Witness ==
    /\ op = "convert_tokens_to_indices"
    /\ Registered(UNK) /\ Registered(PAD)
    /\ PAD \in Elems(args.tokens)
    /\ \E i, j \in DOMAIN args.tokens :
          /\ Registered(args.tokens[i]) /\ args.tokens[i] \notin {PAD, UNK}
          /\ ~Registered(args.tokens[j])
    /\ result.err = "none"
    /\ Len(result.val) = 3

C16_Case ==
    /\ op = "batch_encode_3d"
    /\ args.padding = <<TRUE, TRUE>>
    /\ args.truncation = <<FALSE, FALSE>>
    /\ \E p \in DOMAIN args.batch : args.batch[p] # <<>>
    /\ \A p \in DOMAIN args.batch : \A k \in DOMAIN args.batch[p] : args.batch[p][k] # <<>>
    /\ \A t \in Tokens3D(args.batch) : Registered(t) /\ t # PAD

\* batch_decode_3d with padding=false gives the encoded batch back
C16_DecodesBack ==
    /\ result.err = "none"
    /\ BatchDecode3D(vocabulary, result.val, FALSE).err = "none"
    /\ BatchDecode3D(vocabulary, result.val, FALSE).val = args.batch

\* C16 as stated: the round trip gives the batch back whatever the
\* vocabulary's special tokens are.
C16_Original == C16_Case => C16_DecodesBack

\* C16: on a vocabulary with <pad> registered, for a batch in which some
\* patient has a visit, no visit is empty and every token is registered and
\* is not <pad>, batch_decode_3d with padding=false of batch_encode_3d with
\* padding=(true,true) and truncation=(false,false) is the batch: a patient
\* with zero visits gets zero visits back, the others their visits.
C16_RoundTrip3D == (C16_Case /\ Registered(PAD)) => C16_DecodesBack

\* C16 witness: a batch with a patient of zero visits and a patient with a
\* visit has been encoded with a placeholder visit and decodes to itself.
C16_Witness ==
    /\ C16_Case /\ Registered(PAD)
    /\ \E p \in DOMAIN args.batch : args.batch[p] = <<>>
    /\ result.err = "none"
    /\ \A p \in DOMAIN result.val : Len(result.val[p]) = 1
    /\ BatchDecode3D(vocabulary, result.val, FALSE).val = args.batch

\* C17: batch_encode_3d with truncation=(true,true) and max_length
\* components >= 0 keeps both limits under every padding setting: in the
\* output every patient has at most max_length[0] visits, and every visit,
\* the placeholder visits too, has at most max_length[1] codes.  (The
\* code's placeholder visit holds one <pad>, appended after the truncation:
\* with max_length[1] = 0 it is longer than the limit.)
C17_Original ==
    (/\ op = "batch_encode_3d"
     /\ args.truncation = <<TRUE, TRUE>>
     /\ args.max_length[1] >= 0 /\ args.max_length[2] >= 0
     /\ result.err = "none") =>
        \A p \in DOMAIN result.val :
            /\ Len(result.val[p]) <= args.max_length[1]
            /\ \A k \in DOMAIN result.val[p] :
                  Len(result.val[p][k]) <= args.max_length[2]

====
